---- MODULE Spec2Model ----
(***************************************************************************)
(* A model of src/app.py: the directory-listing cache (directory_cache),   *)
(* its janitor (cache_cleaner / clear_expired_cache), the two listing      *)
(* handlers that read and fill it, save_categorized, which moves objects   *)
(* in the store and invalidates one cache entry, list_images, which pages  *)
(* through the images of a folder, and upload_images.                      *)
(*                                                                         *)
(* Strings are sequences of symbols.  A symbol is one character ("a", "/", *)
(* ".", "_", ...) except for the literals of the source, which no input    *)
(* contains a part of and which are therefore kept as one symbol each:     *)
(* "CategorizedFiles", "subdirs_", "root_directories", and for the file     *)
(* extensions, whose letters only matter together: "jpg", "JPG", "txt", ... *)
(***************************************************************************)
EXTENDS Integers, Sequences, FiniteSets, TLC

\* ------------------------------------------------------------------ bounds
\* the clock stops after MaxTicks ticks
MaxTicks == 3
\* requests started in one behaviour
MaxRequests == 2
\* entries of one categorizedImages list
MaxBatch == 3
\* keys and common prefixes the store returns in one list_objects_v2 page
MaxKeys == 2
\* the largest 'page' and 'pageSize' of a list_images request
MaxPage == 4
MaxPageSize == 3

\* ------------------------------------------------------- program constants
cache_timeout == 300
SleepSeconds == 60
\* the clock's granularity: half the TTL, so that ages below, at and above
\* cache_timeout all occur
TickStep == cache_timeout \div 2

\* ------------------------------------------------------------------ strings
EndsWith(s, c) == Len(s) > 0 /\ s[Len(s)] = c

StartsWith(s, p) == Len(p) <= Len(s) /\ SubSeq(s, 1, Len(p)) = p

\* s[n:] for n characters dropped
Drop(s, n) == SubSeq(s, n + 1, Len(s))

\* str.rstrip(c)
RECURSIVE RStrip(_, _)
RStrip(s, c) ==
    IF EndsWith(s, c) THEN RStrip(SubSeq(s, 1, Len(s) - 1), c) ELSE s

\* str.rfind(c), 1-based; 0 when c does not occur
RFind(s, c) ==
    LET hits == {i \in 1..Len(s) : s[i] = c}
    IN  IF hits = {} THEN 0 ELSE CHOOSE i \in hits : \A j \in hits : j <= i

\* str.find(c), 1-based; 0 when c does not occur
Find(s, c) ==
    LET hits == {i \in 1..Len(s) : s[i] = c}
    IN  IF hits = {} THEN 0 ELSE CHOOSE i \in hits : \A j \in hits : i <= j

\* str.lower(), symbol by symbol
LowerSymbol(c) ==
    CASE c = "JPG" -> "jpg"
      [] c = "F" -> "f"
      [] OTHER -> c

Lower(s) == [i \in 1..Len(s) |-> LowerSymbol(s[i])]

\* "if p and not p.endswith('/'): p += '/'"
NormalizePrefix(p) == IF p # <<>> /\ ~EndsWith(p, "/") THEN p \o <<"/">> ELSE p

\* posixpath.splitext: the extension starts at the last dot of the last path
\* segment, unless only dots precede it in that segment
SplitExt(p) ==
    LET sep == RFind(p, "/")
        dot == RFind(p, ".")
    IN  IF dot > sep /\ \E i \in (sep + 1)..(dot - 1) : p[i] # "."
        THEN <<SubSeq(p, 1, dot - 1), SubSeq(p, dot, Len(p))>>
        ELSE <<p, <<>>>>

\* posixpath.join of two parts: an absolute second part discards the first
PathJoin(a, b) ==
    IF StartsWith(b, <<"/">>) THEN b
    ELSE IF a = <<>> \/ EndsWith(a, "/") THEN a \o b
    ELSE a \o <<"/">> \o b

\* str.replace('\\', '/')
ReplaceBackslash(s) == [i \in 1..Len(s) |-> IF s[i] = "\\" THEN "/" ELSE s[i]]

\* the byte order of the first character of each symbol ("png" after "p")
Rank(c) ==
    CASE c = "." -> 46
      [] c = "/" -> 47
      [] c = "0" -> 48
      [] c = "1" -> 49
      [] c = "2" -> 50
      [] c = "3" -> 51
      [] c = "4" -> 52
      [] c = "5" -> 53
      [] c = "6" -> 54
      [] c = "7" -> 55
      [] c = "8" -> 56
      [] c = "9" -> 57
      [] c = "CategorizedFiles" -> 67
      [] c = "F" -> 70
      [] c = "JPG" -> 74
      [] c = "Uncategorized_Images" -> 85
      [] c = "\\" -> 92
      [] c = "_" -> 95
      [] c = "a" -> 97
      [] c = "b" -> 98
      [] c = "c" -> 99
      [] c = "f" -> 102
      [] c = "g" -> 103
      [] c = "jpg" -> 106
      [] c = "k" -> 107
      [] c = "p" -> 112
      [] c = "png" -> 113
      [] c = "s" -> 115
      [] c = "txt" -> 116
      [] c = "x" -> 120
      [] c = "y" -> 121
      [] OTHER -> 127

\* s < t in the store's (binary, lexicographic) key order
RECURSIVE LexLess(_, _)
LexLess(s, t) ==
    IF t = <<>> THEN FALSE
    ELSE IF s = <<>> THEN TRUE
    ELSE IF s[1] # t[1] THEN Rank(s[1]) < Rank(t[1])
    ELSE LexLess(Tail(s), Tail(t))

\* the elements of a set of strings in key order
RECURSIVE SortKeys(_)
SortKeys(S) ==
    IF S = {} THEN <<>>
    ELSE LET m == CHOOSE x \in S : \A y \in S \ {x} : LexLess(x, y)
         IN  <<m>> \o SortKeys(S \ {m})

\* ---------------------------------------------------------------- literals
ROOT_KEY == <<"root_directories">>
SUBDIRS == <<"subdirs_">>
DEST_PARENT == <<"CategorizedFiles", "/">>
UNCATEGORIZED_FOLDER == <<"Uncategorized_Images", "/">>

\* f"subdirs_{prefix}"
SubdirsKey(prefix) == SUBDIRS \o prefix

\* list_subdirectories: "cache_key = f'subdirs_{parent_prefix}'", executed
\* before parent_prefix is normalized
ListingKey(directory) == SubdirsKey(directory)

\* save_categorized: "cache_key = f'subdirs_{source_folder}'", executed after
\* source_folder was normalized
InvalidatedKey(source_folder) == SubdirsKey(source_folder)

\* ------------------------------------------------------------------- inputs
\* the 'directory' values of list_subdirectories requests
Directories == {<<"a">>, <<"a", "/">>}
\* the 'sourceFolder' values of save_categorized requests
SourceFolders == {<<"a">>, <<"a", "/">>, <<"CategorizedFiles", "/", "c">>}
Filenames == {<<"x", ".", "p">>, <<"x", "_", "c", ".", "p">>, <<"y", ".", "p">>}
Categories == {<<"c">>}
\* an entry of categorizedImages: a JSON object with or without each field
Images ==
    [filename : Filenames, category : Categories]
        \cup [filename : {<<"x", ".", "p">>}]
        \cup [category : Categories]

\* the lists of at most n entries
RECURSIVE ListsUpTo(_)
ListsUpTo(n) ==
    IF n = 0 THEN {<<>>}
    ELSE LET shorter == ListsUpTo(n - 1)
         IN  shorter \cup {Append(l, e) : l \in {m \in shorter : Len(m) = n - 1},
                                          e \in Images}

\* the bucket before the first request: object key -> content
InitialBucket ==
    (<<"a", "/", "x", ".", "p">> :> 1)
        @@ (<<"CategorizedFiles", "/", "c", "/", "x", ".", "p">> :> 2)
        @@ (<<"a", "/", "s", "/", "y", ".", "p">> :> 3)
        @@ (<<"a", "/", "y", ".", "p">> :> 4)

Handlers == {"h1", "h2"}
FirstHandler == "h1"

\* -------------------------------------------------------------------- state
VARIABLES
    now,              \* time.time()
    directory_cache,  \* cache key -> [data, timestamp], for the keys present
    bucket,           \* the S3 bucket: object key -> content
    h,                \* per request-handler thread: position, locals, response
    janitor,          \* the cache_cleaner thread: position and locals
    rootFill,         \* history: the list_directories call that last filled the cache
    requests,         \* requests started so far
    schedule          \* how threads are scheduled in this behaviour (never changes)

vars == <<now, directory_cache, bucket, h, janitor, rootFill, requests, schedule>>

\* ---------------------------------------------------------------- the store
\* list_objects_v2(Prefix=prefix, Delimiter='/'): every key under the prefix,
\* rolled up to its common prefix when a delimiter follows the prefix
DelimitedEntry(prefix, key) ==
    LET rest == Drop(key, Len(prefix))
        cut == Find(rest, "/")
    IN  IF cut > 0 THEN [kind |-> "prefix", key |-> prefix \o SubSeq(rest, 1, cut)]
        ELSE [kind |-> "object", key |-> key]

\* the listing's entries in key order
ListObjectsV2(b, prefix) ==
    LET entries == {DelimitedEntry(prefix, k) : k \in {x \in DOMAIN b : StartsWith(x, prefix)}}
        order == SortKeys({e.key : e \in entries})
    IN  [i \in 1..Len(order) |-> CHOOSE e \in entries : e.key = order[i]]

\* the listing cut into result pages of at most MaxKeys entries; an empty
\* listing is one empty page
RECURSIVE Paginate(_)
Paginate(entries) ==
    IF Len(entries) <= MaxKeys THEN <<entries>>
    ELSE <<SubSeq(entries, 1, MaxKeys)>> \o Paginate(Drop(entries, MaxKeys))

\* page['CommonPrefixes'], as the list of prefix['Prefix']
CommonPrefixes(page) ==
    LET only == SelectSeq(page, LAMBDA e : e.kind = "prefix")
    IN  [i \in 1..Len(only) |-> only[i].key]

\* the concatenation of a list of lists
RECURSIVE Flatten(_)
Flatten(ls) == IF ls = <<>> THEN <<>> ELSE Head(ls) \o Flatten(Tail(ls))

\* a copy that reports success and writes nothing
CopyNothing(b, source_key, dest_key) == b

\* bucket.copy({'Key': source_key}, dest_key) when it succeeds
CopyObject(b, source_key, dest_key) ==
    [k \in DOMAIN b \cup {dest_key} |-> IF k = dest_key THEN b[source_key] ELSE b[k]]

\* a delete that reports success and removes nothing
DeleteNothing(b, key) == b

\* s3_client.delete_object(Key=key) when it succeeds
DeleteObject(b, key) == [k \in DOMAIN b \ {key} |-> b[k]]

\* ---------------------------------------------------------------- the cache
\* an entry stored before its list was filled
CacheEntryWithoutData(data, t) == [data |-> <<>>, timestamp |-> t]

\* {'data': data, 'timestamp': time.time()}
CacheEntry(data, t) == [data |-> data, timestamp |-> t]

\* directory_cache[key] = entry
CachePut(cache, key, entry) ==
    [k \in DOMAIN cache \cup {key} |-> IF k = key THEN entry ELSE cache[k]]

\* directory_cache.pop(key) / directory_cache.pop(key, None) of a present key
CachePop(cache, key) == [k \in DOMAIN cache \ {key} |-> cache[k]]

\* the age test with the boundary on the wrong side
IsFreshInclusive(entry, t) == t - entry.timestamp <= cache_timeout

\* "time.time() - cache_entry['timestamp'] < cache_timeout"
IsFresh(entry, t) == t - entry.timestamp < cache_timeout

\* "current_time - v['timestamp'] > cache_timeout"
IsExpired(entry, t) == t - entry.timestamp > cache_timeout

\* ------------------------------------------------------------- the handlers
NoResponse == [status |-> 0, kind |-> "none", body |-> <<>>]
NotLooked == [present |-> FALSE, age |-> 0, data |-> <<>>]

Idle ==
    [pc |-> "idle", op |-> "none", id |-> 0, dir |-> <<>>, batch |-> <<>>,
     cache_key |-> <<>>, seen |-> NotLooked, queries |-> 0, data |-> <<>>,
     source_folder |-> <<>>, i |-> 0, results |-> <<>>, ops |-> <<>>,
     page |-> 0, page_size |-> 0, resp |-> NoResponse]

JanitorAsleep(wake) ==
    [pc |-> "sleep", wake |-> wake, current_time |-> 0, size |-> 0,
     visited |-> {}, expired_keys |-> {}, before |-> <<>>]

\* the state after the module is loaded and the cache cleaner started
Start ==
    /\ now = 0
    /\ directory_cache = <<>>
    /\ bucket = InitialBucket
    /\ h = [t \in Handlers |-> Idle]
    /\ janitor = JanitorAsleep(0)
    /\ rootFill = [valid |-> FALSE, id |-> 0, body |-> <<>>, at |-> 0]
    /\ requests = 0

\* requests are handled one at a time and no sweep runs during a request
Init == Start /\ schedule = "serial"

\* handler threads and the janitor thread interleave freely
InitThreads == Start /\ schedule = "threads"

\* ------------------------------------------------------------- scheduling
JanitorResting == janitor.pc \in {"sleep", "crashed"}
AllIdle == \A t \in Handlers : h[t].pc = "idle"

\* thread t may take a step
Turn(t) == schedule = "threads" \/ (t = FirstHandler /\ JanitorResting)
JanitorTurn == schedule = "threads" \/ AllIdle
ClockTurn == schedule = "threads" \/ (AllIdle /\ JanitorResting)

\* --------------------------------------------- list_directories / _subdirectories
\* the handler's result list of list_directories from one (unpaginated) store call
RootDirectories(b) ==
    LET prefixes == CommonPrefixes(Head(Paginate(ListObjectsV2(b, <<>>))))
    IN  <<[path |-> <<>>, name |-> <<"Root">>]>>
            \o [i \in 1..Len(prefixes) |->
                    [path |-> prefixes[i], name |-> RStrip(prefixes[i], "/")]]

\* a result list built from the first result page only
SubdirectoriesFirstPage(b, directory) ==
    LET parent_prefix == NormalizePrefix(directory)
        prefixes == SelectSeq(CommonPrefixes(Head(Paginate(ListObjectsV2(b, parent_prefix)))),
                              LAMBDA q : q # parent_prefix)
    IN  [i \in 1..Len(prefixes) |->
            [path |-> prefixes[i],
             name |-> RStrip(Drop(prefixes[i], Len(parent_prefix)), "/")]]

\* the handler's result list of list_subdirectories, over all result pages
Subdirectories(b, directory) ==
    LET parent_prefix == NormalizePrefix(directory)
        pages == Paginate(ListObjectsV2(b, parent_prefix))
        prefixes == SelectSeq(Flatten([i \in 1..Len(pages) |-> CommonPrefixes(pages[i])]),
                              LAMBDA q : q # parent_prefix)
    IN  [i \in 1..Len(prefixes) |->
            [path |-> prefixes[i],
             name |-> RStrip(Drop(prefixes[i], Len(parent_prefix)), "/")]]

\* a request arrives at an idle handler thread
Begin(t, op, dir, batch, key) ==
    /\ Turn(t)
    /\ h[t].pc = "idle"
    /\ requests < MaxRequests
    /\ requests' = requests + 1
    /\ h' = [h EXCEPT ![t] = [Idle EXCEPT !.pc = "check", !.op = op, !.id = requests + 1,
                                          !.dir = dir, !.batch = batch, !.cache_key = key]]
    /\ UNCHANGED <<now, directory_cache, bucket, janitor, rootFill, schedule>>

BeginListDirectories(t) == Begin(t, "list_directories", <<>>, <<>>, ROOT_KEY)

\* the cache key is built from the request's value as given
BeginListSubdirectories(t, directory) ==
    Begin(t, "list_subdirectories", directory, <<>>, ListingKey(directory))

\* "if cache_key in directory_cache:"
CacheCheck(t) ==
    /\ Turn(t)
    /\ h[t].pc = "check"
    /\ h' = [h EXCEPT ![t].pc =
                IF h[t].cache_key \in DOMAIN directory_cache THEN "lookup" ELSE "query"]
    /\ UNCHANGED <<now, directory_cache, bucket, janitor, rootFill, requests, schedule>>

\* "cache_entry = directory_cache[cache_key]" and the age test; a key removed
\* since the membership test raises KeyError outside the handler's try
CacheLookup(t) ==
    /\ Turn(t)
    /\ h[t].pc = "lookup"
    /\ IF h[t].cache_key \notin DOMAIN directory_cache
       THEN h' = [h EXCEPT ![t].pc = "done",
                           ![t].resp = [status |-> 500, kind |-> "KeyError", body |-> <<>>]]
       ELSE LET cache_entry == directory_cache[h[t].cache_key]
                seen == [present |-> TRUE, age |-> now - cache_entry.timestamp,
                         data |-> cache_entry.data]
            IN  IF IsFresh(cache_entry, now)
                THEN h' = [h EXCEPT ![t].pc = "done", ![t].seen = seen,
                                    ![t].resp = [status |-> 200, kind |-> "cache",
                                                 body |-> cache_entry.data]]
                ELSE h' = [h EXCEPT ![t].pc = "query", ![t].seen = seen]
    /\ UNCHANGED <<now, directory_cache, bucket, janitor, rootFill, requests, schedule>>

\* a miss path that puts an empty entry into the cache before the listing
\* has arrived
QueryStoreFillingFirst(t) ==
    /\ Turn(t)
    /\ h[t].pc = "query"
    /\ directory_cache' = CachePut(directory_cache, h[t].cache_key, CacheEntry(<<>>, now))
    /\ \E ok \in BOOLEAN :
         h' = [h EXCEPT
                 ![t].queries = @ + 1,
                 ![t].pc = IF ok THEN "write" ELSE "done",
                 ![t].data = IF ~ok THEN <<>>
                             ELSE IF h[t].op = "list_directories" THEN RootDirectories(bucket)
                             ELSE Subdirectories(bucket, h[t].dir),
                 ![t].resp = IF ok THEN @
                             ELSE [status |-> 500, kind |-> "store_error", body |-> <<>>]]
    /\ UNCHANGED <<now, bucket, janitor, rootFill, requests, schedule>>

\* the store call(s) of the miss path: the listing, or an exception
QueryStore(t) ==
    /\ Turn(t)
    /\ h[t].pc = "query"
    /\ \E ok \in BOOLEAN :
         h' = [h EXCEPT
                 ![t].queries = @ + 1,
                 ![t].pc = IF ok THEN "write" ELSE "done",
                 ![t].data = IF ~ok THEN <<>>
                             ELSE IF h[t].op = "list_directories" THEN RootDirectories(bucket)
                             ELSE Subdirectories(bucket, h[t].dir),
                 ![t].resp = IF ok THEN @
                             ELSE [status |-> 500, kind |-> "store_error", body |-> <<>>]]
    /\ UNCHANGED <<now, directory_cache, bucket, janitor, rootFill, requests, schedule>>

\* "directory_cache[cache_key] = {...}" and the response
CacheWrite(t) ==
    /\ Turn(t)
    /\ h[t].pc = "write"
    /\ directory_cache' = CachePut(directory_cache, h[t].cache_key, CacheEntry(h[t].data, now))
    /\ h' = [h EXCEPT ![t].pc = "done",
                      ![t].resp = [status |-> 200, kind |-> "store", body |-> h[t].data]]
    /\ rootFill' = IF h[t].op = "list_directories"
                   THEN [valid |-> TRUE, id |-> h[t].id, body |-> h[t].data, at |-> now]
                   ELSE rootFill
    /\ UNCHANGED <<now, bucket, janitor, requests, schedule>>

\* the response is sent; the thread is free again
Return(t) ==
    /\ Turn(t)
    /\ h[t].pc = "done"
    /\ h' = [h EXCEPT ![t] = Idle]
    /\ UNCHANGED <<now, directory_cache, bucket, janitor, rootFill, requests, schedule>>

\* ------------------------------------------------------------------ janitor
\* cache_cleaner wakes and clear_expired_cache reads the clock
JanitorWake ==
    /\ JanitorTurn
    /\ janitor.pc = "sleep"
    /\ now >= janitor.wake
    /\ janitor' = [janitor EXCEPT !.pc = "iterate", !.current_time = now,
                                  !.size = Cardinality(DOMAIN directory_cache),
                                  !.visited = {}, !.expired_keys = {},
                                  !.before = directory_cache]
    /\ UNCHANGED <<now, directory_cache, bucket, h, rootFill, requests, schedule>>

\* one step of the list comprehension over directory_cache.items(): the
\* iterator raises RuntimeError when the dictionary's size has changed, or
\* when it meets more keys than the dictionary held at the start; the
\* exception ends the thread.  The iteration order is left open.
JanitorIterate ==
    /\ JanitorTurn
    /\ janitor.pc = "iterate"
    /\ LET rest == DOMAIN directory_cache \ janitor.visited
       IN  IF Cardinality(DOMAIN directory_cache) # janitor.size
           THEN janitor' = [janitor EXCEPT !.pc = "crashed"]
           ELSE IF rest = {}
           THEN janitor' = [janitor EXCEPT !.pc = "pop"]
           ELSE IF Cardinality(janitor.visited) >= janitor.size
           THEN janitor' = [janitor EXCEPT !.pc = "crashed"]
           ELSE \E k \in rest :
                  janitor' = [janitor EXCEPT
                                !.visited = @ \cup {k},
                                !.expired_keys =
                                    IF IsExpired(directory_cache[k], janitor.current_time)
                                    THEN @ \cup {k} ELSE @]
    /\ UNCHANGED <<now, directory_cache, bucket, h, rootFill, requests, schedule>>

\* "for key in expired_keys: directory_cache.pop(key, None)", one key a step
JanitorPop ==
    /\ JanitorTurn
    /\ janitor.pc = "pop"
    /\ IF janitor.expired_keys = {}
       THEN /\ janitor' = [janitor EXCEPT !.pc = "swept"]
            /\ UNCHANGED <<directory_cache, rootFill>>
       ELSE \E k \in janitor.expired_keys :
              /\ janitor' = [janitor EXCEPT !.expired_keys = @ \ {k}]
              /\ directory_cache' = IF k \in DOMAIN directory_cache
                                    THEN CachePop(directory_cache, k) ELSE directory_cache
              /\ rootFill' = IF k = ROOT_KEY THEN [rootFill EXCEPT !.valid = FALSE]
                             ELSE rootFill
    /\ UNCHANGED <<now, bucket, h, requests, schedule>>

\* "time.sleep(60)"
JanitorSleep ==
    /\ JanitorTurn
    /\ janitor.pc = "swept"
    /\ janitor' = JanitorAsleep(now + SleepSeconds)
    /\ UNCHANGED <<now, directory_cache, bucket, h, rootFill, requests, schedule>>

\* the clock advances
Tick ==
    /\ ClockTurn
    /\ now < MaxTicks * TickStep
    /\ now' = now + TickStep
    /\ UNCHANGED <<directory_cache, bucket, h, janitor, rootFill, requests, schedule>>

\* --------------------------------------------------------- save_categorized
\* "'filename' not in img_data or 'category' not in img_data" is false
HasFields(img_data) == {"filename", "category"} \subseteq DOMAIN img_data

\* the index of the first entry from i on that is not skipped, or past the end
NextImage(batch, i) ==
    LET todo == {j \in i..Len(batch) : HasFields(batch[j])}
    IN  IF todo = {} THEN Len(batch) + 1 ELSE CHOOSE j \in todo : \A k \in todo : j <= k

\* "os.path.join(source_folder, filename).replace('\\', '/')"
SourceKey(source_folder, filename) == ReplaceBackslash(PathJoin(source_folder, filename))

\* "name, ext = os.path.splitext(filename); f'{name}_{category}{ext}'"
NewFilename(filename, category) ==
    SplitExt(filename)[1] \o <<"_">> \o category \o SplitExt(filename)[2]

\* "os.path.join(dest_parent, category, new_filename).replace('\\', '/')"
DestKey(category, new_filename) ==
    ReplaceBackslash(PathJoin(PathJoin(DEST_PARENT, category), new_filename))

\* a batch result that counts every result, failed or not
BatchResultCountingAll(results) ==
    [status |-> 200, kind |-> "batch",
     body |-> [results |-> results, categorizedCount |-> Len(results),
               destinationFolder |-> DEST_PARENT]]

\* the batch result of the response
BatchResult(results) ==
    [status |-> 200, kind |-> "batch",
     body |-> [results |-> results,
               categorizedCount |-> Len(SelectSeq(results, LAMBDA r : r.success)),
               destinationFolder |-> DEST_PARENT]]

\* where the handler goes after entry i: the next entry's copy, or the
\* invalidation after the loop
AfterImage(batch, i) ==
    IF NextImage(batch, i + 1) > Len(batch) THEN "invalidate" ELSE "copy"

\* "data.get('categorizedImages', [])": a body without the field gives the
\* empty list
CategorizedImagesOf(data) ==
    IF "categorizedImages" \in DOMAIN data THEN data.categorizedImages ELSE <<>>

\* a handler without the test for the empty list
BeginSaveUnchecked(t, sourceFolder, categorized_images) ==
    /\ Turn(t)
    /\ h[t].pc = "idle"
    /\ requests < MaxRequests
    /\ requests' = requests + 1
    /\ h' = [h EXCEPT ![t] =
               [Idle EXCEPT !.pc = AfterImage(categorized_images, 0),
                            !.op = "save_categorized", !.id = requests + 1,
                            !.dir = sourceFolder, !.batch = categorized_images,
                            !.source_folder = NormalizePrefix(sourceFolder),
                            !.cache_key = InvalidatedKey(NormalizePrefix(sourceFolder)),
                            !.i = NextImage(categorized_images, 1)]]
    /\ UNCHANGED <<now, directory_cache, bucket, janitor, rootFill, schedule>>

\* the request is parsed: an empty list is rejected, the folder normalized
BeginSaveCategorized(t, sourceFolder, categorized_images) ==
    /\ Turn(t)
    /\ h[t].pc = "idle"
    /\ requests < MaxRequests
    /\ requests' = requests + 1
    /\ h' = [h EXCEPT ![t] =
               IF categorized_images = <<>>
               THEN [Idle EXCEPT !.pc = "done", !.op = "save_categorized",
                                 !.id = requests + 1, !.dir = sourceFolder,
                                 !.resp = [status |-> 400, kind |-> "empty", body |-> <<>>]]
               ELSE [Idle EXCEPT !.pc = AfterImage(categorized_images, 0),
                                 !.op = "save_categorized", !.id = requests + 1,
                                 !.dir = sourceFolder, !.batch = categorized_images,
                                 !.source_folder = NormalizePrefix(sourceFolder),
                                 !.cache_key = InvalidatedKey(NormalizePrefix(sourceFolder)),
                                 !.i = NextImage(categorized_images, 1)]]
    /\ UNCHANGED <<now, directory_cache, bucket, janitor, rootFill, schedule>>

\* a copy whose failure is swallowed: the handler goes on to the delete
SaveCopyThenDelete(t) ==
    /\ Turn(t)
    /\ h[t].pc = "copy"
    /\ LET img_data == h[t].batch[h[t].i]
           source_key == SourceKey(h[t].source_folder, img_data.filename)
           dest_key == DestKey(img_data.category,
                               NewFilename(img_data.filename, img_data.category))
       IN  \E store_ok \in BOOLEAN :
             LET ok == store_ok /\ source_key \in DOMAIN bucket
                 op == [op |-> "copy", item |-> h[t].i, src |-> source_key,
                        dst |-> dest_key, ok |-> ok,
                        had |-> source_key \in DOMAIN bucket,
                        content |-> IF source_key \in DOMAIN bucket
                                    THEN bucket[source_key] ELSE 0]
             IN  IF ok
                 THEN /\ bucket' = CopyObject(bucket, source_key, dest_key)
                      /\ rootFill' = [rootFill EXCEPT !.valid = FALSE]
                      /\ h' = [h EXCEPT ![t].pc = "delete", ![t].ops = Append(@, op)]
                 ELSE /\ h' = [h EXCEPT ![t].pc = "delete", ![t].ops = Append(@, op)]
                      /\ UNCHANGED <<bucket, rootFill>>
    /\ UNCHANGED <<now, directory_cache, janitor, requests, schedule>>

\* "bucket.copy(...)": it raises when the source object is missing or the
\* store fails; the failure is the entry's result
SaveCopy(t) ==
    /\ Turn(t)
    /\ h[t].pc = "copy"
    /\ LET img_data == h[t].batch[h[t].i]
           source_key == SourceKey(h[t].source_folder, img_data.filename)
           dest_key == DestKey(img_data.category,
                               NewFilename(img_data.filename, img_data.category))
       IN  \E store_ok \in BOOLEAN :
             LET ok == store_ok /\ source_key \in DOMAIN bucket
                 op == [op |-> "copy", item |-> h[t].i, src |-> source_key,
                        dst |-> dest_key, ok |-> ok,
                        had |-> source_key \in DOMAIN bucket,
                        content |-> IF source_key \in DOMAIN bucket
                                    THEN bucket[source_key] ELSE 0]
             IN  IF ok
                 THEN /\ bucket' = CopyObject(bucket, source_key, dest_key)
                      /\ rootFill' = [rootFill EXCEPT !.valid = FALSE]
                      /\ h' = [h EXCEPT ![t].pc = "delete", ![t].ops = Append(@, op)]
                 ELSE /\ h' = [h EXCEPT
                                 ![t].pc = AfterImage(h[t].batch, h[t].i),
                                 ![t].i = NextImage(h[t].batch, h[t].i + 1),
                                 ![t].ops = Append(@, op),
                                 ![t].results =
                                     Append(@, [item |-> h[t].i,
                                                original |-> img_data.filename,
                                                error |-> "copy", success |-> FALSE])]
                      /\ UNCHANGED <<bucket, rootFill>>
    /\ UNCHANGED <<now, directory_cache, janitor, requests, schedule>>

\* "s3_client.delete_object(...)" and the entry's result
SaveDelete(t) ==
    /\ Turn(t)
    /\ h[t].pc = "delete"
    /\ LET img_data == h[t].batch[h[t].i]
           source_key == SourceKey(h[t].source_folder, img_data.filename)
           new_filename == NewFilename(img_data.filename, img_data.category)
       IN  \E ok \in BOOLEAN :
             /\ bucket' = IF ok THEN DeleteObject(bucket, source_key) ELSE bucket
             /\ rootFill' = IF ok THEN [rootFill EXCEPT !.valid = FALSE] ELSE rootFill
             /\ h' = [h EXCEPT
                        ![t].pc = AfterImage(h[t].batch, h[t].i),
                        ![t].i = NextImage(h[t].batch, h[t].i + 1),
                        ![t].ops = Append(@, [op |-> "delete", item |-> h[t].i,
                                              src |-> source_key, ok |-> ok]),
                        ![t].results =
                            Append(@, IF ok
                                      THEN [item |-> h[t].i, original |-> img_data.filename,
                                            renamed |-> new_filename,
                                            category |-> img_data.category, success |-> TRUE]
                                      ELSE [item |-> h[t].i, original |-> img_data.filename,
                                            error |-> "delete", success |-> FALSE])]
    /\ UNCHANGED <<now, directory_cache, janitor, requests, schedule>>

\* "cache_key = f'subdirs_{source_folder}'; if cache_key in directory_cache:"
SaveInvalidate(t) ==
    /\ Turn(t)
    /\ h[t].pc = "invalidate"
    /\ h' = IF h[t].cache_key \in DOMAIN directory_cache
            THEN [h EXCEPT ![t].pc = "pop"]
            ELSE [h EXCEPT ![t].pc = "done", ![t].resp = BatchResult(h[t].results)]
    /\ UNCHANGED <<now, directory_cache, bucket, janitor, rootFill, requests, schedule>>

\* "directory_cache.pop(cache_key)": a key removed since the membership test
\* raises KeyError, which the handler's outer except turns into a 500
SavePop(t) ==
    /\ Turn(t)
    /\ h[t].pc = "pop"
    /\ IF h[t].cache_key \in DOMAIN directory_cache
       THEN /\ directory_cache' = CachePop(directory_cache, h[t].cache_key)
            /\ h' = [h EXCEPT ![t].pc = "done", ![t].resp = BatchResult(h[t].results)]
       ELSE /\ UNCHANGED directory_cache
            /\ h' = [h EXCEPT ![t].pc = "done",
                              ![t].resp = [status |-> 500, kind |-> "KeyError",
                                           body |-> <<>>]]
    /\ UNCHANGED <<now, bucket, janitor, rootFill, requests, schedule>>

\* ----------------------------------------------------------------- list_images
IMAGE_EXTENSIONS ==
    {<<".", "jpg">>, <<".", "jpeg">>, <<".", "png">>, <<".", "gif">>,
     <<".", "bmp">>, <<".", "webp">>, <<".", "svg">>, <<".", "tiff">>}

\* list_objects_v2(Prefix=prefix) without a delimiter: every key that starts
\* with the prefix, in key order
ListKeys(b, prefix) == SortKeys({k \in DOMAIN b : StartsWith(k, prefix)})

\* "obj['Key'].endswith('/')" is false and the lower-cased extension is an
\* image extension
IsImageKey(key) ==
    ~EndsWith(key, "/") /\ Lower(SplitExt(key)[2]) \in IMAGE_EXTENSIONS

\* an image list built from the first result page only
ImageFilesFirstPage(b, folder_path) ==
    LET keys == SelectSeq(Head(Paginate(ListKeys(b, folder_path))), IsImageKey)
    IN  [i \in 1..Len(keys) |->
            [filename |-> IF folder_path # <<>> THEN Drop(keys[i], Len(folder_path))
                          ELSE keys[i],
             key |-> keys[i], size |-> b[keys[i]]]]

\* image_files: the images of all result pages, in the order of the listing
\* (lastModified is carried along like size and left out)
ImageFiles(b, folder_path) ==
    LET pages == Paginate(ListKeys(b, folder_path))
        keys == SelectSeq(Flatten(pages), IsImageKey)
    IN  [i \in 1..Len(keys) |->
            [filename |-> IF folder_path # <<>> THEN Drop(keys[i], Len(folder_path))
                          ELSE keys[i],
             key |-> keys[i], size |-> b[keys[i]]]]

\* a slice that takes one element more
PySliceInclusive(l, start, end) ==
    LET n == Len(l)
        Clamp(i) == IF i < 0 THEN (IF i + n < 0 THEN 0 ELSE i + n)
                    ELSE IF i > n THEN n ELSE i
    IN  IF Clamp(start) > Clamp(end) \/ Clamp(start) >= n THEN <<>>
        ELSE SubSeq(l, Clamp(start) + 1, IF Clamp(end) + 1 > n THEN n ELSE Clamp(end) + 1)

\* l[start:end]: a negative index counts from the end, and both are cut to
\* the list
PySlice(l, start, end) ==
    LET n == Len(l)
        Clamp(i) == IF i < 0 THEN (IF i + n < 0 THEN 0 ELSE i + n)
                    ELSE IF i > n THEN n ELSE i
    IN  IF Clamp(start) >= Clamp(end) THEN <<>>
        ELSE SubSeq(l, Clamp(start) + 1, Clamp(end))

\* "(total_count + page_size - 1) // page_size", for page_size > 0
TotalPages(total_count, page_size) == (total_count + page_size - 1) \div page_size

\* the response of lines 203-218
ListImagesBody(image_files, folder_path, page, page_size) ==
    LET total_count == Len(image_files)
        start_idx == (page - 1) * page_size
        end_idx == start_idx + page_size
    IN  [images |-> PySlice(image_files, start_idx, end_idx),
         totalCount |-> total_count,
         folderPath |-> folder_path,
         currentPage |-> page,
         pageSize |-> page_size,
         totalPages |-> TotalPages(total_count, page_size)]

\* the request is parsed
BeginListImages(t, folderPath, page_size, page) ==
    /\ Turn(t)
    /\ h[t].pc = "idle"
    /\ requests < MaxRequests
    /\ requests' = requests + 1
    /\ h' = [h EXCEPT ![t] = [Idle EXCEPT !.pc = "images", !.op = "list_images",
                                          !.id = requests + 1, !.dir = folderPath,
                                          !.page = page, !.page_size = page_size]]
    /\ UNCHANGED <<now, directory_cache, bucket, janitor, rootFill, schedule>>

\* the try block: the listing, the filter, the slice and the response; a
\* failed store call and the division by a pageSize of 0 are answered 500
ListImages(t) ==
    /\ Turn(t)
    /\ h[t].pc = "images"
    /\ \E ok \in BOOLEAN :
         LET folder_path == NormalizePrefix(h[t].dir)
             image_files == ImageFiles(bucket, folder_path)
         IN  h' = [h EXCEPT
                     ![t].pc = "done",
                     ![t].queries = IF ok THEN Len(Paginate(ListKeys(bucket, folder_path)))
                                    ELSE 1,
                     ![t].data = IF ok THEN image_files ELSE <<>>,
                     ![t].resp =
                         IF ~ok
                         THEN [status |-> 500, kind |-> "store_error", body |-> <<>>]
                         ELSE IF h[t].page_size = 0
                         THEN [status |-> 500, kind |-> "ZeroDivisionError", body |-> <<>>]
                         ELSE [status |-> 200, kind |-> "images",
                               body |-> ListImagesBody(image_files, folder_path,
                                                       h[t].page, h[t].page_size)]]
    /\ UNCHANGED <<now, directory_cache, bucket, janitor, rootFill, requests, schedule>>

\* --------------------------------------------------------------- upload_images
\* str.strip(chars)
RECURSIVE Strip(_, _)
Strip(s, chars) ==
    IF s # <<>> /\ Head(s) \in chars THEN Strip(Tail(s), chars)
    ELSE IF s # <<>> /\ s[Len(s)] \in chars THEN Strip(SubSeq(s, 1, Len(s) - 1), chars)
    ELSE s

\* "_".join(s.split()) for a string whose separators were made blanks: the
\* words between runs of blanks, joined by one '_'
RECURSIVE JoinWords(_)
JoinWords(s) ==
    IF s = <<>> THEN <<>>
    ELSE IF Head(s) = " " THEN JoinWords(Tail(s))
    ELSE IF Len(s) > 1 /\ s[2] = " "
         THEN IF JoinWords(Tail(s)) = <<>> THEN <<Head(s)>>
              ELSE <<Head(s), "_">> \o JoinWords(Tail(s))
    ELSE <<Head(s)>> \o JoinWords(Tail(s))

\* werkzeug's secure_filename on the characters of the inputs: path
\* separators become blanks, the words are joined by '_', and dots and
\* underscores are stripped from both ends
SecureFilename(filename) ==
    Strip(JoinWords([i \in 1..Len(filename) |->
                        IF filename[i] \in {"/", "\\"} THEN " " ELSE filename[i]]),
          {".", "_"})

\* allowed_file
AllowedFile(filename) ==
    /\ \E i \in 1..Len(filename) : filename[i] = "."
    /\ Lower(SplitExt(filename)[2]) \in IMAGE_EXTENSIONS

\* uuid.uuid4().hex: a token no stored name begins with yet
HexTokens == <<"0", "1", "2", "3", "4", "5", "6", "7", "8", "9">>

Uuid4(b) ==
    LET used == {k[3] : k \in {x \in DOMAIN b : Len(x) > 2 /\ StartsWith(x, UNCATEGORIZED_FOLDER)}}
        free == {i \in 1..Len(HexTokens) : HexTokens[i] \notin used}
    IN  HexTokens[CHOOSE i \in free : \A j \in free : i <= j]

\* s3_client.upload_fileobj(file, S3_BUCKET, s3_key) when it succeeds
UploadFileobj(b, s3_key, content) ==
    [k \in DOMAIN b \cup {s3_key} |-> IF k = s3_key THEN content ELSE b[k]]

\* the response of lines 390-394
UploadResult(results) ==
    [status |-> 200, kind |-> "batch",
     body |-> [results |-> results,
               uploadedCount |-> Len(SelectSeq(results, LAMBDA r : r.success)),
               destinationFolder |-> UNCATEGORIZED_FOLDER]]

\* lines 331-337: a form without 'files', an empty list and a list whose
\* first file has no name are answered 400
BeginUploadImages(t, files) ==
    /\ Turn(t)
    /\ h[t].pc = "idle"
    /\ requests < MaxRequests
    /\ requests' = requests + 1
    /\ h' = [h EXCEPT ![t] =
               IF "files" \notin DOMAIN files
               THEN [Idle EXCEPT !.pc = "done", !.op = "upload_images", !.id = requests + 1,
                                 !.resp = [status |-> 400, kind |-> "no_files", body |-> <<>>]]
               ELSE IF files.files = <<>> \/ files.files[1].filename = <<>>
               THEN [Idle EXCEPT !.pc = "done", !.op = "upload_images", !.id = requests + 1,
                                 !.batch = files.files,
                                 !.resp = [status |-> 400, kind |-> "no_selection",
                                           body |-> <<>>]]
               ELSE [Idle EXCEPT !.pc = "upload", !.op = "upload_images",
                                 !.id = requests + 1, !.batch = files.files, !.i = 1,
                                 !.cache_key = SubdirsKey(UNCATEGORIZED_FOLDER)]]
    /\ UNCHANGED <<now, directory_cache, bucket, janitor, rootFill, schedule>>

\* one pass of the loop: a file without a name or with a disallowed
\* extension gets its failure result; an allowed file is written to the
\* store, or the exception of the write is its result
UploadFile(t) ==
    /\ Turn(t)
    /\ h[t].pc = "upload"
    /\ LET file == h[t].batch[h[t].i]
           filename == SecureFilename(file.filename)
           unique_filename == <<Uuid4(bucket), "_">> \o filename
           s3_key == UNCATEGORIZED_FOLDER \o unique_filename
           next == IF h[t].i = Len(h[t].batch) THEN "uinvalidate" ELSE "upload"
       IN  IF file.filename # <<>> /\ AllowedFile(file.filename)
           THEN \E ok \in BOOLEAN :
                  /\ bucket' = IF ok THEN UploadFileobj(bucket, s3_key, file.content)
                               ELSE bucket
                  /\ rootFill' = IF ok THEN [rootFill EXCEPT !.valid = FALSE] ELSE rootFill
                  /\ h' = [h EXCEPT
                             ![t].pc = next,
                             ![t].i = @ + 1,
                             ![t].ops = Append(@, [op |-> "upload", item |-> h[t].i,
                                                   key |-> s3_key, ok |-> ok]),
                             ![t].results =
                                 Append(@, IF ok
                                           THEN [item |-> h[t].i, originalName |-> filename,
                                                 storedName |-> unique_filename,
                                                 s3Key |-> s3_key, success |-> TRUE]
                                           ELSE [item |-> h[t].i,
                                                 originalName |-> file.filename,
                                                 error |-> "upload", success |-> FALSE])]
           ELSE /\ h' = [h EXCEPT
                           ![t].pc = next,
                           ![t].i = @ + 1,
                           ![t].results =
                               Append(@, [item |-> h[t].i, originalName |-> file.filename,
                                          error |-> "File type not allowed",
                                          success |-> FALSE])]
                /\ UNCHANGED <<bucket, rootFill>>
    /\ UNCHANGED <<now, directory_cache, janitor, requests, schedule>>

\* "cache_key = f'subdirs_{UNCATEGORIZED_FOLDER}'; if cache_key in directory_cache:"
UploadInvalidate(t) ==
    /\ Turn(t)
    /\ h[t].pc = "uinvalidate"
    /\ h' = IF h[t].cache_key \in DOMAIN directory_cache
            THEN [h EXCEPT ![t].pc = "upop"]
            ELSE [h EXCEPT ![t].pc = "done", ![t].resp = UploadResult(h[t].results)]
    /\ UNCHANGED <<now, directory_cache, bucket, janitor, rootFill, requests, schedule>>

\* "directory_cache.pop(cache_key)", outside any try: a key removed since the
\* membership test raises KeyError, which the framework answers with 500
UploadPop(t) ==
    /\ Turn(t)
    /\ h[t].pc = "upop"
    /\ IF h[t].cache_key \in DOMAIN directory_cache
       THEN /\ directory_cache' = CachePop(directory_cache, h[t].cache_key)
            /\ h' = [h EXCEPT ![t].pc = "done", ![t].resp = UploadResult(h[t].results)]
       ELSE /\ UNCHANGED directory_cache
            /\ h' = [h EXCEPT ![t].pc = "done",
                              ![t].resp = [status |-> 500, kind |-> "KeyError",
                                           body |-> <<>>]]
    /\ UNCHANGED <<now, bucket, janitor, rootFill, requests, schedule>>

\* ------------------------------------------------------------ specifications
\* the batches of the specifications that are about the cache
OneImage == {<<[filename |-> <<"x", ".", "p">>, category |-> <<"c">>]>>}

\* the batches of the specification that is about save_categorized
Batches == ListsUpTo(MaxBatch)

\* the requests that can arrive at thread t: those of S when it is free
Arriving(t, S) == IF Turn(t) /\ h[t].pc = "idle" /\ requests < MaxRequests THEN S ELSE {}

Next ==
    \/ \E t \in Handlers : BeginListDirectories(t)
    \/ \E t \in Handlers, d \in Directories : BeginListSubdirectories(t, d)
    \/ \E t \in Handlers : \E f \in SourceFolders, b \in Arriving(t, OneImage) :
            BeginSaveCategorized(t, f, b)
    \/ \E t \in Handlers : CacheCheck(t)
    \/ \E t \in Handlers : CacheLookup(t)
    \/ \E t \in Handlers : QueryStore(t)
    \/ \E t \in Handlers : CacheWrite(t)
    \/ \E t \in Handlers : SaveCopy(t)
    \/ \E t \in Handlers : SaveDelete(t)
    \/ \E t \in Handlers : SaveInvalidate(t)
    \/ \E t \in Handlers : SavePop(t)
    \/ \E t \in Handlers : Return(t)
    \/ JanitorWake
    \/ JanitorIterate
    \/ JanitorPop
    \/ JanitorSleep
    \/ Tick

\* requests one at a time, with the janitor and the clock between them
Spec == Init /\ [][Next]_vars

\* handler threads and the janitor interleaved
ThreadSpec == InitThreads /\ [][Next]_vars

\* the folders of the specification that is about save_categorized: one
\* spelling of each
BatchFolders == {<<"a">>, <<"CategorizedFiles", "/", "c">>}

\* save_categorized batches of every shape, and the listing of their folder
NextSave ==
    \/ \E t \in Handlers : BeginListSubdirectories(t, <<"a", "/">>)
    \/ \E t \in Handlers : \E f \in BatchFolders, b \in Arriving(t, Batches) :
            BeginSaveCategorized(t, f, b)
    \/ \E t \in Handlers, f \in BatchFolders :
            BeginSaveCategorized(t, f, CategorizedImagesOf([sourceFolder |-> f]))
    \/ \E t \in Handlers : CacheCheck(t)
    \/ \E t \in Handlers : CacheLookup(t)
    \/ \E t \in Handlers : QueryStore(t)
    \/ \E t \in Handlers : CacheWrite(t)
    \/ \E t \in Handlers : SaveCopy(t)
    \/ \E t \in Handlers : SaveDelete(t)
    \/ \E t \in Handlers : SaveInvalidate(t)
    \/ \E t \in Handlers : SavePop(t)
    \/ \E t \in Handlers : Return(t)

SaveSpec == Init /\ [][NextSave]_vars

\* the buckets of the specification that is about the listings
ListingBuckets ==
    { (<<"p", "/", ".", "jpg">> :> 1)
          @@ (<<"p", "/", "F", ".", "JPG">> :> 2)
          @@ (<<"p", "/", "f", ".", "jpg">> :> 3)
          @@ (<<"p", "/", "f", ".", "txt">> :> 4)
          @@ (<<"p", "/", "s", "/">> :> 5)
          @@ (<<"p", "/", "s", "/", "g", ".", "png">> :> 6),
      (<<"a", "/", "b", ".", "jpg">> :> 1)
          @@ (<<"a", "/", "c", ".", "txt">> :> 2)
          @@ (<<"a", "/", "x", "/">> :> 3)
          @@ (<<"a", "/", "x", "/", "k", ".", "jpg">> :> 4)
          @@ (<<"a", "/", "y", ".", "png">> :> 5)
          @@ (<<"b", "/", "k", ".", "jpg">> :> 6),
      <<>>,
      InitialBucket }

\* the 'folderPath' and 'directory' values of the listing requests
ListingFolders == {<<>>, <<"a">>, <<"a", "/">>, <<"p", "/">>}

InitListing ==
    /\ now = 0
    /\ directory_cache = <<>>
    /\ bucket \in ListingBuckets
    /\ h = [t \in Handlers |-> Idle]
    /\ janitor = JanitorAsleep(0)
    /\ rootFill = [valid |-> FALSE, id |-> 0, body |-> <<>>, at |-> 0]
    /\ requests = 0
    /\ schedule = "serial"

\* list_images and list_subdirectories over buckets of several result pages
NextListing ==
    \/ \E t \in Handlers, f \in ListingFolders, s \in 0..MaxPageSize, p \in 0..MaxPage :
            BeginListImages(t, f, s, p)
    \/ \E t \in Handlers : ListImages(t)
    \/ \E t \in Handlers, d \in ListingFolders : BeginListSubdirectories(t, d)
    \/ \E t \in Handlers : CacheCheck(t)
    \/ \E t \in Handlers : CacheLookup(t)
    \/ \E t \in Handlers : QueryStore(t)
    \/ \E t \in Handlers : CacheWrite(t)
    \/ \E t \in Handlers : Return(t)

ListSpec == InitListing /\ [][NextListing]_vars

\* the requests of the specification that is about the keys: one entry a
\* batch, with a filename or a category that begins or ends with '/'
KeyFolders == {<<>>, <<"a">>, <<"a", "/">>}

KeyBatches ==
    {<<img>> : img \in [filename : {<<"x", ".", "p">>, <<"/", "x", ".", "p">>, <<"x">>},
                        category : {<<"c">>, <<"/", "c">>, <<"c", "/">>}]}

NextKeys ==
    \/ \E t \in Handlers : BeginListSubdirectories(t, <<"a", "/">>)
    \/ \E t \in Handlers : \E f \in KeyFolders, b \in Arriving(t, KeyBatches) :
            BeginSaveCategorized(t, f, b)
    \/ \E t \in Handlers : CacheCheck(t)
    \/ \E t \in Handlers : CacheLookup(t)
    \/ \E t \in Handlers : QueryStore(t)
    \/ \E t \in Handlers : CacheWrite(t)
    \/ \E t \in Handlers : SaveCopy(t)
    \/ \E t \in Handlers : SaveDelete(t)
    \/ \E t \in Handlers : SaveInvalidate(t)
    \/ \E t \in Handlers : SavePop(t)
    \/ \E t \in Handlers : Return(t)

KeySpec == Init /\ [][NextKeys]_vars

\* the uploaded files: without a name, with an image extension in either
\* case, with another extension, and with a path in the name
UploadedFiles ==
    [filename : {<<>>, <<"a", ".", "png">>, <<"a", ".", "JPG">>, <<"a", ".", "txt">>,
                 <<"/", "a", ".", "png">>},
     content : {7}]

\* the lists of at most n uploaded files
RECURSIVE FileListsUpTo(_)
FileListsUpTo(n) ==
    IF n = 0 THEN {<<>>}
    ELSE LET shorter == FileListsUpTo(n - 1)
         IN  shorter \cup {Append(l, e) : l \in {m \in shorter : Len(m) = n - 1},
                                          e \in UploadedFiles}

\* request.files: with the field 'files', or without it
UploadForms == [files : FileListsUpTo(MaxBatch)] \cup {[other |-> <<>>]}

\* upload_images, and the listing of the folder it writes to
NextUpload ==
    \/ \E t \in Handlers : BeginListSubdirectories(t, UNCATEGORIZED_FOLDER)
    \/ \E t \in Handlers : \E f \in Arriving(t, UploadForms) : BeginUploadImages(t, f)
    \/ \E t \in Handlers : CacheCheck(t)
    \/ \E t \in Handlers : CacheLookup(t)
    \/ \E t \in Handlers : QueryStore(t)
    \/ \E t \in Handlers : CacheWrite(t)
    \/ \E t \in Handlers : UploadFile(t)
    \/ \E t \in Handlers : UploadInvalidate(t)
    \/ \E t \in Handlers : UploadPop(t)
    \/ \E t \in Handlers : Return(t)

UploadSpec == Init /\ [][NextUpload]_vars

\* ------------------------------------------------------------------- claims
ListingDone(t) ==
    h[t].pc = "done" /\ h[t].op \in {"list_directories", "list_subdirectories"}

\* what the store holds for the listing request of thread t
FreshListing(t) ==
    IF h[t].op = "list_directories" THEN RootDirectories(bucket)
    ELSE Subdirectories(bucket, h[t].dir)

\* C1: a listing is served from the cache, with no store query, exactly when
\* an entry was found under the request's key and its age is below 300 s; in
\* every other case the store is queried once and, when the query returns,
\* the entry under the key becomes the fresh listing with timestamp = now.
C1_ServedIffYoungerThanTtl ==
    \A t \in Handlers :
        ListingDone(t) =>
            LET valid == h[t].seen.present /\ h[t].seen.age < 300
            IN  /\ (h[t].resp.kind = "cache") <=> valid
                /\ valid => /\ h[t].queries = 0
                            /\ h[t].resp.body = h[t].seen.data
                /\ ~valid =>
                     /\ h[t].queries = 1
                     /\ h[t].resp.kind \in {"store", "store_error"}
                     /\ h[t].resp.kind = "store" =>
                          /\ h[t].resp.body = FreshListing(t)
                          /\ h[t].cache_key \in DOMAIN directory_cache
                          /\ directory_cache[h[t].cache_key]
                                = [data |-> FreshListing(t), timestamp |-> now]

\* an entry of age exactly 300 s, not swept, was found and the store queried
C1_ExpiredEntryRefetched ==
    \E t \in Handlers :
        /\ ListingDone(t)
        /\ h[t].seen.present
        /\ h[t].seen.age = 300
        /\ h[t].resp.kind = "store"

\* C2: a sweep with no concurrent cache access removes every entry whose age
\* is at least the TTL, an age of exactly the TTL included, and leaves the
\* younger entries as they were.
C2_SweepRemovesAgeAtLeastTtl ==
    janitor.pc = "swept" =>
        LET keep == {k \in DOMAIN janitor.before :
                        janitor.current_time - janitor.before[k].timestamp < cache_timeout}
        IN  directory_cache = [k \in keep |-> janitor.before[k]]

\* C3: under every interleaving of handlers and janitor no cache operation
\* fails: no lookup or pop of a key removed since its membership test, no
\* failed iteration of the sweep, and no error response caused by one.
C3_NoCacheOperationFails ==
    /\ janitor.pc # "crashed"
    /\ \A t \in Handlers : h[t].resp.kind # "KeyError"

\* the two spellings of a folder: without and with the trailing '/'
Spellings(folder) == {RStrip(folder, "/"), NormalizePrefix(RStrip(folder, "/"))}

\* C4: once save_categorized on folder F has returned its batch result, a
\* list_subdirectories request for F, spelled 'F' or 'F/', finds no entry to
\* serve: it is a cache miss.
C4_BatchInvalidatesFolderListing ==
    \A t \in Handlers :
        (h[t].pc = "done" /\ h[t].op = "save_categorized" /\ h[t].resp.kind = "batch") =>
            \A d \in Spellings(h[t].dir) :
                ~(/\ ListingKey(d) \in DOMAIN directory_cache
                  /\ IsFresh(directory_cache[ListingKey(d)], now))

\* C5: list_subdirectories reads and writes the cache under "subdirs_" + the
\* normalized prefix, so 'a' and 'a/' share one entry.
C5_KeyFromNormalizedPrefix ==
    \A t \in Handlers :
        h[t].op = "list_subdirectories" =>
            h[t].cache_key = SUBDIRS \o NormalizePrefix(h[t].dir)

\* a list_directories call other than the one that filled the cache, made
\* less than 300 s after the fill, with the store and the root entry untouched
SecondCallWithinTtl(t) ==
    /\ h[t].pc = "done"
    /\ h[t].op = "list_directories"
    /\ rootFill.valid
    /\ rootFill.id # h[t].id
    /\ now - rootFill.at < 300

\* C6: the second list_directories call within the TTL, with no store
\* mutation and no removal of the root entry in between, returns what the
\* first returned and queries the store not at all.
C6_SecondCallRepeatsFirst ==
    \A t \in Handlers :
        SecondCallWithinTtl(t) =>
            /\ h[t].resp.status = 200
            /\ h[t].resp.body = rootFill.body
            /\ h[t].queries = 0

\* a second call made some time after the first and answered
C6_SecondCallMade ==
    \E t \in Handlers : SecondCallWithinTtl(t) /\ now > rootFill.at

\* C7: once started the janitor never terminates and never stops sweeping.
C7_JanitorRunsForever == janitor.pc # "crashed"

\* a save_categorized request that has returned its batch result
BatchDone(t) ==
    h[t].pc = "done" /\ h[t].op = "save_categorized" /\ h[t].resp.kind = "batch"

\* the store operations issued for entry j of the batch of thread t
OpsOf(t, j) == {k \in 1..Len(h[t].ops) : h[t].ops[k].item = j}
CopyOf(t, j) == h[t].ops[CHOOSE k \in OpsOf(t, j) : h[t].ops[k].op = "copy"]
CopySucceeded(t, j) == \E k \in OpsOf(t, j) : h[t].ops[k].op = "copy" /\ h[t].ops[k].ok
DeleteSucceeded(t, j) == \E k \in OpsOf(t, j) : h[t].ops[k].op = "delete" /\ h[t].ops[k].ok
DeleteFailed(t, j) == \E k \in OpsOf(t, j) : h[t].ops[k].op = "delete" /\ ~h[t].ops[k].ok

\* a later entry of the same batch wrote or deleted the key
TouchedLater(t, j, key) ==
    \E k \in 1..Len(h[t].ops) :
        /\ h[t].ops[k].item > j
        /\ h[t].ops[k].ok
        /\ \/ h[t].ops[k].op = "copy" /\ h[t].ops[k].dst = key
           \/ h[t].ops[k].op = "delete" /\ h[t].ops[k].src = key

\* the content of entry j is at its destination key and nothing at its source key
Moved(t, j) ==
    /\ CopyOf(t, j).dst \in DOMAIN bucket
    /\ bucket[CopyOf(t, j).dst] = CopyOf(t, j).content
    /\ CopyOf(t, j).src \notin DOMAIN bucket

\* an entry is reported success:true exactly when its copy and its delete succeeded
SuccessIffBoth(t) ==
    \A n \in 1..Len(h[t].results) :
        h[t].results[n].success
            <=> (CopySucceeded(t, h[t].results[n].item)
                    /\ DeleteSucceeded(t, h[t].results[n].item))

\* C8 as stated: an entry is success:true iff its copy and its delete both
\* succeeded, and after the batch every success:true entry has its content
\* at the destination key and no object at its source key.
C8_MovedAfterBatch ==
    \A t \in Handlers :
        BatchDone(t) =>
            /\ SuccessIffBoth(t)
            /\ \A n \in 1..Len(h[t].results) :
                 h[t].results[n].success => Moved(t, h[t].results[n].item)

\* C8 as amended: the same, for the keys that no later entry of the same
\* batch wrote or deleted.
C8_MovedUnlessTouchedLater ==
    \A t \in Handlers :
        BatchDone(t) =>
            /\ SuccessIffBoth(t)
            /\ \A n \in 1..Len(h[t].results) :
                 LET j == h[t].results[n].item
                 IN  h[t].results[n].success =>
                       /\ ~TouchedLater(t, j, CopyOf(t, j).dst) =>
                            /\ CopyOf(t, j).dst \in DOMAIN bucket
                            /\ bucket[CopyOf(t, j).dst] = CopyOf(t, j).content
                       /\ ~TouchedLater(t, j, CopyOf(t, j).src) =>
                            CopyOf(t, j).src \notin DOMAIN bucket

\* a batch that moved two objects, neither touched by the other entry
C8_TwoObjectsMoved ==
    \E t \in Handlers :
        /\ BatchDone(t)
        /\ Len(h[t].results) = 2
        /\ h[t].results[1].success /\ h[t].results[2].success
        /\ ~TouchedLater(t, h[t].results[1].item, CopyOf(t, h[t].results[1].item).dst)
        /\ ~TouchedLater(t, h[t].results[1].item, CopyOf(t, h[t].results[1].item).src)

\* the object of entry j is at its source key and at its destination key
AtBoth(t, j) ==
    /\ CopyOf(t, j).src \in DOMAIN bucket
    /\ bucket[CopyOf(t, j).src] = CopyOf(t, j).content
    /\ CopyOf(t, j).dst \in DOMAIN bucket
    /\ bucket[CopyOf(t, j).dst] = CopyOf(t, j).content

\* the entries of the batch that are not skipped, in input order
Processed(batch) ==
    SelectSeq([i \in 1..Len(batch) |-> i],
              LAMBDA i : {"filename", "category"} \subseteq DOMAIN batch[i])

\* entry j, copied but not deleted: no delete of the copy was issued, its
\* result stands alone as a failure, and every other entry has its result
NoRollback(t, j) ==
    /\ \A k \in 1..Len(h[t].ops) :
         ~(h[t].ops[k].op = "delete" /\ h[t].ops[k].src = CopyOf(t, j).dst
             /\ h[t].ops[k].item = j)
    /\ \E n \in 1..Len(h[t].results) :
         /\ h[t].results[n].item = j
         /\ ~h[t].results[n].success
         /\ h[t].results[n].error = "delete"
    /\ [n \in 1..Len(h[t].results) |-> h[t].results[n].item] = Processed(h[t].batch)

\* C9 as stated: an entry whose copy succeeded and whose delete failed has
\* its object at both keys after the batch, with no delete of the copy, its
\* own failure result, and the other entries processed all the same.
C9_AtBothKeysAfterBatch ==
    \A t \in Handlers :
        BatchDone(t) =>
            \A j \in 1..Len(h[t].batch) :
                (CopySucceeded(t, j) /\ DeleteFailed(t, j)) =>
                    AtBoth(t, j) /\ NoRollback(t, j)

\* C9 as amended: the object is at both keys when the entry has been
\* processed, and after the batch at each of the two keys that no later
\* entry of the same batch wrote or deleted; the rest as stated.
C9_AtBothKeysUnlessTouchedLater ==
    \A t \in Handlers :
        /\ (h[t].op = "save_categorized" /\ h[t].ops # <<>>
              /\ h[t].ops[Len(h[t].ops)].op = "delete" /\ ~h[t].ops[Len(h[t].ops)].ok)
             => AtBoth(t, h[t].ops[Len(h[t].ops)].item)
        /\ BatchDone(t) =>
             \A j \in 1..Len(h[t].batch) :
                 (CopySucceeded(t, j) /\ DeleteFailed(t, j)) =>
                     /\ NoRollback(t, j)
                     /\ ~TouchedLater(t, j, CopyOf(t, j).src) =>
                          /\ CopyOf(t, j).src \in DOMAIN bucket
                          /\ bucket[CopyOf(t, j).src] = CopyOf(t, j).content
                     /\ ~TouchedLater(t, j, CopyOf(t, j).dst) =>
                          /\ CopyOf(t, j).dst \in DOMAIN bucket
                          /\ bucket[CopyOf(t, j).dst] = CopyOf(t, j).content

\* a batch whose first entry was copied but not deleted and whose second
\* entry was then moved
C9_CopiedNotDeletedThenNextMoved ==
    \E t \in Handlers :
        /\ BatchDone(t)
        /\ Len(h[t].results) = 2
        /\ CopySucceeded(t, h[t].results[1].item)
        /\ DeleteFailed(t, h[t].results[1].item)
        /\ h[t].results[2].success
        /\ AtBoth(t, h[t].results[1].item)

\* C10: a non-empty batch, store failures or not, answers 200 with the batch
\* result: one result per entry that has filename and category, in input
\* order; no result and no store operation for the other entries; and
\* categorizedCount = the number of success:true results.
C10_OneResultPerProcessedEntry ==
    \A t \in Handlers :
        (h[t].pc = "done" /\ h[t].op = "save_categorized" /\ h[t].batch # <<>>) =>
            /\ h[t].resp.status = 200
            /\ h[t].resp.body.results = h[t].results
            /\ [n \in 1..Len(h[t].results) |-> h[t].results[n].item] = Processed(h[t].batch)
            /\ \A n \in 1..Len(h[t].results) :
                 h[t].results[n].original = h[t].batch[h[t].results[n].item].filename
            /\ \A k \in 1..Len(h[t].ops) :
                 \E n \in 1..Len(Processed(h[t].batch)) :
                     Processed(h[t].batch)[n] = h[t].ops[k].item
            /\ \A n \in 1..Len(Processed(h[t].batch)) :
                 OpsOf(t, Processed(h[t].batch)[n]) # {}
            /\ h[t].resp.body.categorizedCount
                 = Cardinality({n \in 1..Len(h[t].results) : h[t].results[n].success})

\* a batch with a skipped entry, a failed entry and, after them, a moved one
C10_SkippedFailedMoved ==
    \E t \in Handlers :
        /\ BatchDone(t)
        /\ Len(h[t].batch) = 3
        /\ Len(h[t].results) = 2
        /\ ~h[t].results[1].success
        /\ h[t].results[2].success
        /\ h[t].resp.body.categorizedCount = 1

\* a save_categorized request whose list is empty or missing
EmptyBatch(r) == r.op = "save_categorized" /\ r.batch = <<>>

\* C11: save_categorized with an empty or missing categorizedImages list is
\* answered 400 at once and has no effect: no copy, no delete, and the
\* bucket and the directory cache are the same after every step of the request.
C11_EmptyListRejectedWithoutEffect ==
    [][\A t \in Handlers :
          (EmptyBatch(h[t]) \/ EmptyBatch(h'[t])) =>
              /\ directory_cache' = directory_cache
              /\ bucket' = bucket
              /\ EmptyBatch(h'[t]) =>
                    /\ h'[t].pc = "done"
                    /\ h'[t].resp.status = 400
                    /\ h'[t].ops = <<>>]_vars

\* an empty list was rejected while the cache held the listing of its folder
C11_EmptyListWithFolderCached ==
    \E t \in Handlers :
        /\ EmptyBatch(h[t])
        /\ h[t].resp.status = 400
        /\ InvalidatedKey(NormalizePrefix(h[t].dir)) \in DOMAIN directory_cache

\* a list_images request that has been answered
ImagesDone(t) == h[t].pc = "done" /\ h[t].op = "list_images"

Min(a, b) == IF a < b THEN a ELSE b

\* the places (counted from 1) of page q in a list of n entries cut into
\* pages of s: the indices (q-1)*s .. min(q*s, n)-1 counted from 0
PageIndices(n, s, q) == ((q - 1) * s + 1)..Min(q * s, n)

\* C12: for an aggregated list of n images, pageSize s >= 1 and page p >= 1,
\* the response is normal, its images are the entries (p-1)*s .. min(p*s,n)-1
\* of the list in order, totalCount = n and totalPages = ceil(n/s); the pages
\* 1..totalPages are disjoint, hold at most s entries each and cover the
\* list; a page beyond totalPages is empty.
C12_PageIsSliceOfAggregate ==
    \A t \in Handlers :
        (ImagesDone(t) /\ h[t].resp.kind # "store_error"
           /\ h[t].page_size >= 1 /\ h[t].page >= 1) =>
            LET l == h[t].data
                n == Len(l)
                s == h[t].page_size
                p == h[t].page
                body == h[t].resp.body
            IN  /\ h[t].resp.status = 200
                /\ Len(body.images) = Cardinality(PageIndices(n, s, p))
                /\ \A i \in 1..Len(body.images) : body.images[i] = l[(p - 1) * s + i]
                /\ body.totalCount = n
                /\ body.totalPages * s >= n
                /\ (body.totalPages - 1) * s < n
                /\ \A q \in 1..body.totalPages :
                     Cardinality(PageIndices(n, s, q)) \in 1..s
                /\ \A q1, q2 \in 1..body.totalPages :
                     q1 # q2 => PageIndices(n, s, q1) \cap PageIndices(n, s, q2) = {}
                /\ UNION {PageIndices(n, s, q) : q \in 1..body.totalPages} = 1..n
                /\ p > body.totalPages => body.images = <<>>

\* the second and last page of three images in pages of two
C12_LastPageShort ==
    \E t \in Handlers :
        /\ ImagesDone(t)
        /\ h[t].resp.status = 200
        /\ h[t].resp.body.totalCount = 3
        /\ h[t].page_size = 2
        /\ h[t].page = 2
        /\ Len(h[t].resp.body.images) = 1

ImageTypes == {"jpg", "jpeg", "png", "gif", "bmp", "webp", "svg", "tiff"}

\* the key's extension is an image type: what follows the last dot of the
\* key's last segment, lower-cased, the dots that begin the segment not counted
HasImageType(key) ==
    LET name == Drop(key, RFind(key, "/"))
        dots == {i \in 0..Len(name) : \A j \in 1..i : name[j] = "."}
        lead == CHOOSE i \in dots : \A j \in dots : j <= i
        rest == Drop(name, lead)
        dot == RFind(rest, ".")
    IN  /\ dot > 0
        /\ Len(rest) = dot + 1
        /\ LowerSymbol(rest[dot + 1]) \in ImageTypes

\* C13: list_images includes, over all result pages of the store, exactly
\* the objects under the normalized folder prefix whose key does not end
\* with '/' and whose lower-cased extension is an image type; each filename
\* is the key with the prefix stripped; totalCount counts them all.
C13_ImagesOfAllPages ==
    \A t \in Handlers :
        (ImagesDone(t) /\ h[t].resp.status = 200) =>
            LET prefix == NormalizePrefix(h[t].dir)
                included == {k \in DOMAIN bucket :
                                StartsWith(k, prefix) /\ ~EndsWith(k, "/") /\ HasImageType(k)}
                l == h[t].data
            IN  /\ {l[i].key : i \in 1..Len(l)} = included
                /\ Len(l) = Cardinality(included)
                /\ \A i \in 1..Len(l) : prefix \o l[i].filename = l[i].key
                /\ h[t].resp.body.totalCount = Cardinality(included)
                /\ h[t].resp.body.folderPath = prefix

\* the folder of f.jpg, f.txt and s/: an image of the third result page is
\* counted, the text file and the directory marker are not
C13_ImageOfLaterPageCounted ==
    \E t \in Handlers :
        /\ ImagesDone(t)
        /\ h[t].resp.status = 200
        /\ h[t].dir = <<"p", "/">>
        /\ <<"p", "/", "f", ".", "txt">> \in DOMAIN bucket
        /\ <<"p", "/", "s", "/">> \in DOMAIN bucket
        /\ h[t].queries = 3
        /\ h[t].resp.body.totalCount = 3
        /\ \E i \in 1..Len(h[t].data) : h[t].data[i].filename = <<"s", "/", "g", ".", "png">>

\* the common prefixes directly under the parent: the parent and one more
\* segment with its '/'
ChildPrefixes(b, parent) ==
    LET rests == {Drop(k, Len(parent)) : k \in {x \in DOMAIN b : StartsWith(x, parent)}}
    IN  {parent \o SubSeq(r, 1, Find(r, "/")) : r \in {x \in rests : Find(x, "/") > 0}}

\* C14: on a miss list_subdirectories returns, over all result pages, exactly
\* the common prefixes directly under the normalized parent prefix, each
\* once, never the parent nor a sibling of it, with path = the child prefix
\* and name = the child prefix without the parent prefix and the final '/'.
C14_ChildPrefixesOfAllPages ==
    \A t \in Handlers :
        (h[t].pc = "done" /\ h[t].op = "list_subdirectories" /\ h[t].resp.kind = "store") =>
            LET parent == NormalizePrefix(h[t].dir)
                body == h[t].resp.body
                children == ChildPrefixes(bucket, parent)
            IN  /\ {body[i].path : i \in 1..Len(body)} = children
                /\ Len(body) = Cardinality(children)
                /\ \A i \in 1..Len(body) :
                     /\ body[i].path # parent
                     /\ body[i].path = parent \o body[i].name \o <<"/">>
                     /\ \A j \in 1..Len(body[i].name) : body[i].name[j] # "/"

\* keys under a/, a/x/ and b/: the parent 'a' has the one child a/x/, which
\* the store returns on its second result page
C14_ChildOnSecondPage ==
    \E t \in Handlers :
        /\ h[t].pc = "done"
        /\ h[t].op = "list_subdirectories"
        /\ h[t].resp.kind = "store"
        /\ h[t].dir = <<"a">>
        /\ <<"b", "/", "k", ".", "jpg">> \in DOMAIN bucket
        /\ h[t].resp.body = <<[path |-> <<"a", "/", "x", "/">>, name |-> <<"x">>]>>

\* C15: for every entry processed, sourceKey = normalized sourceFolder +
\* filename, newFilename = stem + "_" + category + ext and destKey =
\* "CategorizedFiles/" + category + "/" + newFilename, all by plain
\* concatenation, whatever '/' the filename or the category begins or ends with.
C15_KeysArePlainConcatenation ==
    \A t \in Handlers :
        \A k \in 1..Len(h[t].ops) :
            h[t].ops[k].op = "copy" =>
                LET img == h[t].batch[h[t].ops[k].item]
                    newFilename == SplitExt(img.filename)[1] \o <<"_">> \o img.category
                                       \o SplitExt(img.filename)[2]
                IN  /\ h[t].ops[k].src = NormalizePrefix(h[t].dir) \o img.filename
                    /\ h[t].ops[k].dst = <<"CategorizedFiles", "/">> \o img.category
                                            \o <<"/">> \o newFilename

ListingOp(r) == r.op \in {"list_directories", "list_subdirectories"}

\* C16: a listing request changes the directory cache at its cache write
\* only, and a request whose store access fails never reaches it: the failed
\* call is answered 500 at once, after one attempt, with the cache as it was,
\* so the key's entry is still absent or expired for the next request.
C16_StoreFailureLeavesCache ==
    [][\A t \in Handlers :
          /\ (ListingOp(h[t]) /\ h[t].pc # "write" /\ h'[t] # h[t])
                => directory_cache' = directory_cache
          /\ (ListingOp(h[t]) /\ h[t].pc = "query" /\ h'[t].resp.kind = "store_error") =>
                /\ h'[t].pc = "done"
                /\ h'[t].resp.status = 500
                /\ h'[t].queries = 1
                /\ \/ h[t].cache_key \notin DOMAIN directory_cache'
                   \/ ~IsFresh(directory_cache'[h[t].cache_key], now')]_vars

\* the store failed for a request that had found an expired entry, and the
\* entry is still the one it found
C16_FailedWithExpiredEntryKept ==
    \E t \in Handlers :
        /\ ListingDone(t)
        /\ h[t].resp.kind = "store_error"
        /\ h[t].seen.present
        /\ h[t].cache_key \in DOMAIN directory_cache
        /\ directory_cache[h[t].cache_key]
              = [data |-> h[t].seen.data, timestamp |-> now - h[t].seen.age]

\* C17: for a non-empty file list (one that holds a file with a name: a
\* single nameless file is what a form without a selection sends) every
\* file yields exactly one result, in input order; a result is success:true only for an image extension (in
\* either case) whose store write succeeded, and success:false otherwise;
\* uploadedCount is the number of success:true results; and a file with a
\* disallowed extension causes no store write.
C17_OneResultPerFile ==
    \A t \in Handlers :
        (h[t].pc = "done" /\ h[t].op = "upload_images"
           /\ \E n \in 1..Len(h[t].batch) : h[t].batch[n].filename # <<>>) =>
            LET results == h[t].resp.body.results
                Written(j) == \E k \in 1..Len(h[t].ops) :
                                  h[t].ops[k].item = j /\ h[t].ops[k].ok
            IN  /\ h[t].resp.status = 200
                /\ Len(results) = Len(h[t].batch)
                /\ \A n \in 1..Len(results) :
                     /\ results[n].item = n
                     /\ results[n].success
                          <=> (HasImageType(h[t].batch[n].filename) /\ Written(n))
                /\ \A k \in 1..Len(h[t].ops) :
                     HasImageType(h[t].batch[h[t].ops[k].item].filename)
                /\ h[t].resp.body.uploadedCount
                     = Cardinality({n \in 1..Len(results) : results[n].success})

\* C18: a sweep that runs while handlers run never removes an entry that is
\* not expired: every entry a step of the janitor removes has an age of
\* 300 s or more at that moment, also when a handler has refreshed the key
\* since the janitor collected it.
C18_SweepKeepsFreshEntries ==
    [][janitor' # janitor =>
          \A k \in DOMAIN directory_cache :
              k \notin DOMAIN directory_cache' => ~IsFresh(directory_cache[k], now)]_vars

\* the contents of the objects of a bucket
Contents(b) == {b[k] : k \in DOMAIN b}

\* C19: categorization never destroys image content: after any sequence of
\* save_categorized batches every object that was moved is still retrievable
\* at some key, so every content the bucket held at the start is still in it
\* (a delete is issued only for a source that was just copied, so a content
\* can only be lost by a move that overwrites it at its destination key).
C19_NoContentLost == Contents(InitialBucket) \subseteq Contents(bucket)

\* the copy of entry j was attempted on an object that was there
HadSource(t, j) == \E k \in OpsOf(t, j) : h[t].ops[k].op = "copy" /\ h[t].ops[k].had

\* the deletes come after the successful copy of the same entry, and an
\* entry whose copy failed has no delete
DeleteOnlyAfterCopy(t) ==
    \A k \in 1..Len(h[t].ops) :
        h[t].ops[k].op = "delete" =>
            \E c \in 1..(k - 1) :
                /\ h[t].ops[c].op = "copy"
                /\ h[t].ops[c].item = h[t].ops[k].item
                /\ h[t].ops[c].src = h[t].ops[k].src
                /\ h[t].ops[c].ok

\* the content that copy c was to copy is at the source key
AtSource(c) == c.src \in DOMAIN bucket /\ bucket[c.src] = c.content

\* the content that copy c was to copy is at the destination key
AtDestination(c) == c.dst \in DOMAIN bucket /\ bucket[c.dst] = c.content

\* the copies attempted so far in the batch of thread t on objects that were there
CopiesOfObjects(t) ==
    {h[t].ops[k] : k \in {n \in 1..Len(h[t].ops) :
                            h[t].ops[n].op = "copy" /\ h[t].ops[n].had}}

\* C20 as stated: a delete is issued only after the copy of the same entry
\* has succeeded and never after a failed copy; so at every state of a batch
\* the content of each entry processed so far is at its source key or at
\* its destination key, and an entry that failed in its copy still has its
\* source object.
C20_ContentAtSourceOrDestination ==
    \A t \in Handlers :
        h[t].op = "save_categorized" =>
            /\ DeleteOnlyAfterCopy(t)
            /\ \A c \in CopiesOfObjects(t) :
                 /\ AtSource(c) \/ AtDestination(c)
                 /\ ~c.ok => AtSource(c)

\* C20 as amended: the same, for the entries of which no later entry of the
\* same batch wrote or deleted the source key or the destination key.
C20_ContentKeptUnlessTouchedLater ==
    \A t \in Handlers :
        h[t].op = "save_categorized" =>
            /\ DeleteOnlyAfterCopy(t)
            /\ \A c \in CopiesOfObjects(t) :
                 (~TouchedLater(t, c.item, c.src) /\ ~TouchedLater(t, c.item, c.dst)) =>
                     /\ AtSource(c) \/ AtDestination(c)
                     /\ ~c.ok => AtSource(c)

\* a batch whose first entry failed in the copy of an object that is there,
\* with no delete issued for it, and whose second entry moved another object
C20_CopyFailedSourceKept ==
    \E t \in Handlers :
        /\ BatchDone(t)
        /\ Len(h[t].results) = 2
        /\ ~h[t].results[1].success
        /\ h[t].results[1].error = "copy"
        /\ HadSource(t, h[t].results[1].item)
        /\ ~TouchedLater(t, h[t].results[1].item, CopyOf(t, h[t].results[1].item).src)
        /\ h[t].results[2].success
        /\ CopyOf(t, h[t].results[1].item).src \in DOMAIN bucket
====
